---------------------------- MODULE Spec2Model ----------------------------
(***************************************************************************)
(* A model of LegalDocumentProcessor (LegalDocumentProcessingSystem.py).   *)
(*                                                                         *)
(* A Python str is a sequence of one-character strings.  A document is     *)
(* given by what the annotator (spaCy's nlp) returns for it: its sentence  *)
(* spans in order, each with its text, its noun chunks, its token count    *)
(* and its entities.  The processor is a long-lived object; a caller runs  *)
(* one of its three methods at a time.  analyze_term_frequency fans the    *)
(* documents out to a process pool, so its workers are separate steps.     *)
(***************************************************************************)
EXTENDS Integers, Sequences, FiniteSets, TLC

(***************************************************************************)
(* Bounds of the model.                                                    *)
(***************************************************************************)
MaxSents == 4          \* sentences of a document given to the single-document methods
MaxDocs == 3           \* documents given to analyze_term_frequency
MaxTopN == 1           \* largest small top_n (the default, 10, is always tried too)

DefaultTopN == 10      \* top_n: int = 10
Window == 200          \* .{0,200}
SummaryLen == 3        \* important_sentences[:3]
DensityThreshold == 3  \* len(list(sent.noun_chunks)) > 3

(***************************************************************************)
(* Strings.                                                                *)
(***************************************************************************)
Min(S) == CHOOSE x \in S : \A y \in S : x <= y
Max(S) == CHOOSE x \in S : \A y \in S : x >= y

Whitespace == {" ", "\n", "\t", "\r"}

LowerOf ==
    [c \in {"A","B","C","D","E","F","G","H","I","J","K","L","M",
            "N","O","P","Q","R","S","T","U","V","W","X","Y","Z"} |->
       CASE c = "A" -> "a" [] c = "B" -> "b" [] c = "C" -> "c" [] c = "D" -> "d"
         [] c = "E" -> "e" [] c = "F" -> "f" [] c = "G" -> "g" [] c = "H" -> "h"
         [] c = "I" -> "i" [] c = "J" -> "j" [] c = "K" -> "k" [] c = "L" -> "l"
         [] c = "M" -> "m" [] c = "N" -> "n" [] c = "O" -> "o" [] c = "P" -> "p"
         [] c = "Q" -> "q" [] c = "R" -> "r" [] c = "S" -> "s" [] c = "T" -> "t"
         [] c = "U" -> "u" [] c = "V" -> "v" [] c = "W" -> "w" [] c = "X" -> "x"
         [] c = "Y" -> "y" [] c = "Z" -> "z"]

LowerChar(c) == IF c \in DOMAIN LowerOf THEN LowerOf[c] ELSE c

\* str.lower()
Lower(s) == [i \in 1..Len(s) |-> LowerChar(s[i])]

\* str.lstrip(), str.rstrip(), str.strip()
RECURSIVE LStrip(_)
LStrip(s) == IF s # << >> /\ Head(s) \in Whitespace THEN LStrip(Tail(s)) ELSE s

RECURSIVE RStrip(_)
RStrip(s) ==
    IF s # << >> /\ s[Len(s)] \in Whitespace THEN RStrip(SubSeq(s, 1, Len(s) - 1)) ELSE s

Strip(s) == RStrip(LStrip(s))

\* sub in s
Contains(sub, s) ==
    \E i \in 0..(Len(s) - Len(sub)) : SubSeq(s, i + 1, i + Len(sub)) = sub

\* sep.join(parts)
RECURSIVE Join(_, _)
Join(sep, parts) ==
    IF parts = <<>> THEN <<>>
    ELSE IF Len(parts) = 1 THEN parts[1]
    ELSE parts[1] \o sep \o Join(sep, Tail(parts))

(***************************************************************************)
(* Regular expressions of the shape (?i)(alt1|alt2|...).{0,window}: the    *)
(* alternation is given by the set of strings it matches.                  *)
(***************************************************************************)
\* the literal alt matches at offset i of a string, folded being that string in
\* lower case: (?i) compares without regard to case
MatchAt(alt, folded, i) ==
    /\ i + Len(alt) <= Len(folded)
    /\ \A j \in 1..Len(alt) : folded[i + j] = LowerChar(alt[j])

\* .{0,window} matches k characters of s from offset i: "." matches no newline
DotRun(s, i, k) ==
    /\ i + k <= Len(s)
    /\ \A j \in 1..k : s[i + j] # "\n"

\* re.search(pattern, s) finds a match
ReSearch(pattern, s) ==
    LET folded == Lower(s)
    IN  \E alt \in pattern.alts : \E i \in 0..(Len(s) - Len(alt)) :
            /\ MatchAt(alt, folded, i)
            /\ \E k \in 0..pattern.window : DotRun(s, i + Len(alt), k)

(***************************************************************************)
(* The processor's tables.                                                 *)
(***************************************************************************)
LegalTermsWithStem ==
    { <<"l","i","a","b","i","l","i","t","y">>, <<"i","n","d","e","m","n","i","f","i","c","a","t","i","o","n">>, <<"t","e","r","m","i","n","a","t","i","o","n">>, <<"w","a","r","r","a","n","t","y">>,
      <<"c","o","n","f","i","d","e","n","t","i","a","l">>, <<"a","r","b","i","t","r","a","t","i","o","n">>, <<"j","u","r","i","s","d","i","c","t","i","o","n">>, <<"f","o","r","c","e"," ","m","a","j","e","u","r","e">> }

\* self.legal_terms
LegalTerms ==
    { <<"l","i","a","b","i","l","i","t","y">>, <<"i","n","d","e","m","n","i","f","i","c","a","t","i","o","n">>, <<"t","e","r","m","i","n","a","t","i","o","n">>, <<"w","a","r","r","a","n","t","y">>,
      <<"c","o","n","f","i","d","e","n","t","i","a","l","i","t","y">>, <<"a","r","b","i","t","r","a","t","i","o","n">>, <<"j","u","r","i","s","d","i","c","t","i","o","n">>, <<"f","o","r","c","e"," ","m","a","j","e","u","r","e">> }

\* the keys of clauses
ClauseKeys == {"termination", "liability", "confidentiality"}

\* patterns
patterns ==
    [termination |->
        [alts |-> { <<"t","e","r","m","i","n","a","t","e">>, <<"t","e","r","m","i","n","a","t","i","o","n">>, <<"c","a","n","c","e","l">>, <<"c","a","n","c","e","l","l","a","t","i","o","n">> },
         window |-> Window],
     liability |->
        [alts |-> { <<"l","i","a","b","l","e">>, <<"l","i","a","b","i","l","i","t","y">>, <<"i","n","d","e","m","n","i","f","y">>, <<"i","n","d","e","m","n","i","f","i","c","a","t","i","o","n">> },
         window |-> Window],
     confidentiality |->
        [alts |-> { <<"c","o","n","f","i","d","e","n","t","i","a","l">>, <<"c","o","n","f","i","d","e","n","t","i","a","l","i","t","y">>, <<"n","o","n","-","d","i","s","c","l","o","s","u","r","e">> },
         window |-> Window]]

\* the order in which patterns.items() yields the clause types
PatternOrder == << "termination", "liability", "confidentiality" >>

(***************************************************************************)
(* Annotated input.  A sentence is [text, noun_chunks, tokens, ents].      *)
(***************************************************************************)
Sent(text, chunks, tokens, ents) ==
    [text |-> text, noun_chunks |-> chunks, tokens |-> tokens, ents |-> ents]

Ent(label, text) == [label_ |-> label, text |-> text]

\* the three sentences of sample_doc, with the whitespace around them
SampleSent1 ==
    Sent(<<"\n"," "," "," "," ","T","h","i","s"," ","A","g","r","e","e","m","e","n","t"," ","m","a","y"," ","b","e"," ","t","e","r","m","i","n","a","t","e","d"," ","b","y"," ","e","i","t","h","e","r"," ","p","a","r","t","y"," ","u","p","o","n"," ","3","0"," ","d","a","y","s"," ","w","r","i","t","t","e","n"," ","n","o","t","i","c","e",".","\n"," "," "," "," ">>,
         << <<"T","h","i","s"," ","A","g","r","e","e","m","e","n","t">>, <<"e","i","t","h","e","r"," ","p","a","r","t","y">>, <<"3","0"," ","d","a","y","s">>, <<"w","r","i","t","t","e","n"," ","n","o","t","i","c","e">> >>,
         16, << Ent("DATE", <<"3","0"," ","d","a","y","s">>) >>)

SampleSent2 ==
    Sent(<<"T","h","e"," ","C","o","m","p","a","n","y"," ","s","h","a","l","l"," ","n","o","t"," ","b","e"," ","l","i","a","b","l","e"," ","f","o","r"," ","a","n","y"," ","i","n","d","i","r","e","c","t",","," ","s","p","e","c","i","a","l",","," ","o","r"," ","c","o","n","s","e","q","u","e","n","t","i","a","l"," ","d","a","m","a","g","e","s",".","\n"," "," "," "," ">>,
         << <<"T","h","e"," ","C","o","m","p","a","n","y">>, <<"a","n","y"," ","i","n","d","i","r","e","c","t",","," ","s","p","e","c","i","a","l",","," ","o","r"," ","c","o","n","s","e","q","u","e","n","t","i","a","l"," ","d","a","m","a","g","e","s">> >>,
         18, << >>)

SampleSent3 ==
    Sent(<<"A","l","l"," ","c","o","n","f","i","d","e","n","t","i","a","l"," ","i","n","f","o","r","m","a","t","i","o","n"," ","s","h","a","l","l"," ","b","e"," ","k","e","p","t"," ","s","t","r","i","c","t","l","y"," ","c","o","n","f","i","d","e","n","t","i","a","l"," ","f","o","r"," ","a"," ","p","e","r","i","o","d"," ","o","f"," ","5"," ","y","e","a","r","s",".","\n"," "," "," "," ">>,
         << <<"A","l","l"," ","c","o","n","f","i","d","e","n","t","i","a","l"," ","i","n","f","o","r","m","a","t","i","o","n">>, <<"a"," ","p","e","r","i","o","d">>, <<"5"," ","y","e","a","r","s">> >>,
         17, << Ent("DATE", <<"5"," ","y","e","a","r","s">>) >>)

\* sample_doc
SampleDoc == << SampleSent1, SampleSent2, SampleSent3 >>

\* further sentences: mixed case, several categories at once, repeated terms
DenseSent ==
    Sent(<<"L","i","a","b","i","l","i","t","y"," ","f","o","r"," ","T","e","r","m","i","n","a","t","i","o","n"," ","o","r"," ","c","a","n","c","e","l","l","a","t","i","o","n"," ","o","f"," ","t","h","e"," ","N","O","N","-","D","I","S","C","L","O","S","U","R","E"," ","W","a","r","r","a","n","t","y"," ","m","e","a","n","s"," ","l","i","a","b","i","l","i","t","y",".">>,
         << <<"L","i","a","b","i","l","i","t","y">>, <<"T","e","r","m","i","n","a","t","i","o","n">>, <<"c","a","n","c","e","l","l","a","t","i","o","n">>,
            <<"t","h","e"," ","N","O","N","-","D","I","S","C","L","O","S","U","R","E"," ","W","a","r","r","a","n","t","y">>, <<"l","i","a","b","i","l","i","t","y">> >>,
         12, << >>)

ForceSent ==
    Sent(<<" ","F","o","r","c","e"," ","p","r","e","v","a","i","l","s"," ","i","n"," ","O","h","i","o",".">>, << <<"F","o","r","c","e">>, <<"O","h","i","o">> >>, 5,
         << Ent("GPE", <<"O","h","i","o">>) >>)

ArbSent ==
    Sent(<<"A","r","b","i","t","r","a","t","i","o","n"," ","p","r","e","c","e","d","e","s"," ","t","e","r","m","i","n","a","t","i","o","n",".">>,
         << <<"A","r","b","i","t","r","a","t","i","o","n">>, <<"t","e","r","m","i","n","a","t","i","o","n">> >>, 4, << >>)

\* the sentences the single-document methods are tried on
Sentences == {SampleSent1, DenseSent, ForceSent}

SeqsUpTo(S, n) == UNION {[1..k -> S] : k \in 0..n}

\* the documents given to extract_clauses and get_document_insights
Documents == SeqsUpTo(Sentences, MaxSents) \cup {SampleDoc}

\* the documents a corpus is made of
CorpusDocs == {SampleDoc, << DenseSent >>, << ForceSent, ArbSent >>}

Corpora == SeqsUpTo(CorpusDocs, MaxDocs)

\* top_n: any int is accepted; -1 stands for the negative ones
TopNs == ((0 - 1)..MaxTopN) \cup {DefaultTopN}

(***************************************************************************)
(* extract_clauses                                                         *)
(***************************************************************************)
\* sentences = [sent.text.strip() for sent in doc.sents]
SentenceTexts(document) == [i \in 1..Len(document) |-> Strip(document[i].text)]

\* the clause types that come before c in patterns
Earlier(c) ==
    {PatternOrder[j] : j \in {j \in 1..Len(PatternOrder) :
        \E k \in (j + 1)..Len(PatternOrder) : PatternOrder[k] = c}}

MatchingSentencesFirstTypeOnly(c, sentences) ==
    SelectSeq(sentences, LAMBDA s :
        /\ ReSearch(patterns[c], s)
        /\ \A e \in Earlier(c) : ~ReSearch(patterns[e], s))

\* the inner loop: every sentence the pattern of c finds, in order
MatchingSentences(c, sentences) ==
    SelectSeq(sentences, LAMBDA s : ReSearch(patterns[c], s))

ExtractClauses(document) ==
    LET sentences == SentenceTexts(document)
    IN  [c \in ClauseKeys |->
            IF c \in DOMAIN patterns THEN MatchingSentences(c, sentences) ELSE << >>]

(***************************************************************************)
(* analyze_term_frequency                                                  *)
(***************************************************************************)
HasLegalTermReversed(text, terms) ==
    LET lowered == Lower(text)
    IN  \E legal_term \in terms : Contains(lowered, legal_term)

\* any(legal_term in text.lower() for legal_term in self.legal_terms)
HasLegalTerm(text, terms) ==
    LET lowered == Lower(text)
    IN  \E legal_term \in terms : Contains(legal_term, lowered)

\* doc.noun_chunks: the chunks of every sentence, in document order
RECURSIVE NounChunks(_)
NounChunks(document) ==
    IF document = << >> THEN << >>
    ELSE Head(document).noun_chunks \o NounChunks(Tail(document))

ProcessSingleDocUnfiltered(document, terms) ==
    [i \in 1..Len(NounChunks(document)) |-> Lower(NounChunks(document)[i])]

\* _process_single_doc
ProcessSingleDoc(document, terms) ==
    LET chunks == SelectSeq(NounChunks(document), LAMBDA chunk : HasLegalTerm(chunk, terms))
    IN  [i \in 1..Len(chunks) |-> Lower(chunks[i])]

RECURSIVE ExtendAll(_)
ExtendAllLastOnly(processed) ==
    IF processed = << >> THEN << >> ELSE processed[Len(processed)]

ExtendAllReversed(processed) ==
    IF processed = << >> THEN << >>
    ELSE ExtendAll(Tail(processed)) \o Head(processed)

\* all_terms after the loop of all_terms.extend(doc_terms)
ExtendAll(processed) ==
    IF processed = << >> THEN << >>
    ELSE Head(processed) \o ExtendAll(Tail(processed))

\* Counter(all_terms).items(): (term, count) in order of first occurrence
Counter(all_terms) ==
    LET first == SelectSeq([i \in 1..Len(all_terms) |-> i],
                           LAMBDA i : \A j \in 1..(i - 1) : all_terms[j] # all_terms[i])
    IN  [k \in 1..Len(first) |->
            << all_terms[first[k]],
               Cardinality({j \in 1..Len(all_terms) : all_terms[j] = all_terms[first[k]]}) >>]

\* legal_term_freq
LegalOnly(term_freq, terms) ==
    SelectSeq(term_freq, LAMBDA item : HasLegalTerm(item[1], terms))

\* a stable insertion: x goes behind every item whose count is at least its own
RECURSIVE InsertDesc(_, _)
InsertDesc(x, sorted) ==
    IF sorted = << >> THEN << x >>
    ELSE IF Head(sorted)[2] >= x[2] THEN << Head(sorted) >> \o InsertDesc(x, Tail(sorted))
    ELSE << x >> \o sorted

RECURSIVE InsertAsc(_, _)
InsertAsc(x, sorted) ==
    IF sorted = << >> THEN << x >>
    ELSE IF Head(sorted)[2] <= x[2] THEN << Head(sorted) >> \o InsertAsc(x, Tail(sorted))
    ELSE << x >> \o sorted

RECURSIVE SortedByFreqAscending(_)
SortedByFreqAscending(items) ==
    IF items = << >> THEN << >>
    ELSE InsertAsc(items[Len(items)], SortedByFreqAscending(SubSeq(items, 1, Len(items) - 1)))

\* sorted(items, key=lambda x: x[1], reverse=True): stable
RECURSIVE SortedByFreq(_)
SortedByFreq(items) ==
    IF items = << >> THEN << >>
    ELSE InsertDesc(items[Len(items)], SortedByFreq(SubSeq(items, 1, Len(items) - 1)))

SliceOneMore(s, n) ==
    IF n >= 0 THEN SubSeq(s, 1, Min({n + 1, Len(s)}))
    ELSE SubSeq(s, 1, Max({0, Len(s) + n + 1}))

\* s[:n]
Slice(s, n) ==
    IF n >= 0 THEN SubSeq(s, 1, Min({n, Len(s)}))
    ELSE SubSeq(s, 1, Max({0, Len(s) + n}))

\* lines 78-89, from the list executor.map produced
Rank(processed, n, terms) ==
    Slice(SortedByFreq(LegalOnly(Counter(ExtendAll(processed)), terms)), n)

\* analyze_term_frequency(documents, top_n) when no worker fails
AnalyzeTermFrequency(docs, n, terms) ==
    Rank([i \in 1..Len(docs) |-> ProcessSingleDoc(docs[i], terms)], n, terms)

(***************************************************************************)
(* get_document_insights                                                   *)
(***************************************************************************)
GenerateSummaryAtLeast(doc) ==
    LET important == SelectSeq(doc, LAMBDA sent : Len(sent.noun_chunks) >= DensityThreshold)
    IN  Join(<< " " >>, Slice([i \in 1..Len(important) |-> important[i].text], SummaryLen))

\* _generate_summary
GenerateSummary(doc) ==
    LET important == SelectSeq(doc, LAMBDA sent : Len(sent.noun_chunks) > DensityThreshold)
    IN  Join(<< " " >>, Slice([i \in 1..Len(important) |-> important[i].text], SummaryLen))

\* doc.ents
RECURSIVE Ents(_)
Ents(doc) == IF doc = << >> THEN << >> ELSE Head(doc).ents \o Ents(Tail(doc))

\* _extract_entities
ExtractEntities(doc) ==
    LET ents == Ents(doc)
    IN  [l \in {ents[i].label_ : i \in 1..Len(ents)} |->
            LET of == SelectSeq(ents, LAMBDA ent : ent.label_ = l)
            IN  [i \in 1..Len(of) |-> of[i].text]]

\* len(doc)
RECURSIVE TotalWords(_)
TotalWords(doc) == IF doc = << >> THEN 0 ELSE Head(doc).tokens + TotalWords(Tail(doc))

GetDocumentInsights(document) ==
    [summary |-> GenerateSummary(document),
     key_clauses |-> ExtractClauses(document),
     document_stats |-> [total_words |-> TotalWords(document),
                         sentences |-> Len(document),
                         entities |-> ExtractEntities(document)]]

(***************************************************************************)
(* The processor and its caller.                                           *)
(***************************************************************************)
VARIABLES
    legal_terms,      \* self.legal_terms
    op,               \* the method the caller is in, "none" before the first call
    pc,               \* where that call is: "idle", "map", "done", "failed"
    document,         \* the argument of extract_clauses / get_document_insights
    documents,        \* the arguments of analyze_term_frequency
    top_n,
    fut,              \* the futures of executor.map, one per document
    overtaken,        \* some worker finished while one submitted before it had not
    processed_docs,   \* the list being built from executor.map's iterator
    term_freq,        \* Counter(all_terms).items()
    legal_term_freq,
    returned,         \* what the call returned, None until it has
    exc               \* the document whose worker's exception reached the caller, 0 if none

vars == << legal_terms, op, pc, document, documents, top_n, fut, overtaken,
           processed_docs, term_freq, legal_term_freq, returned, exc >>

None == "None"

Init ==
    /\ legal_terms = LegalTerms
    /\ op = "none"
    /\ pc = "idle"
    /\ document = << >>
    /\ documents = << >>
    /\ top_n = DefaultTopN
    /\ fut = << >>
    /\ overtaken = FALSE
    /\ processed_docs = << >>
    /\ term_freq = << >>
    /\ legal_term_freq = << >>
    /\ returned = None
    /\ exc = 0

\* the caller is between calls
Returned == pc = "idle"

\* extract_clauses(d), on the caller's thread
CallExtractClauses(d) ==
    /\ Returned
    /\ op' = "extract_clauses"
    /\ pc' = "done"
    /\ document' = d
    /\ returned' = ExtractClauses(d)
    /\ UNCHANGED << legal_terms, documents, top_n, fut, overtaken, processed_docs,
                    term_freq, legal_term_freq, exc >>

\* get_document_insights(d), on the caller's thread
CallGetDocumentInsights(d) ==
    /\ Returned
    /\ op' = "get_document_insights"
    /\ pc' = "done"
    /\ document' = d
    /\ returned' = GetDocumentInsights(d)
    /\ UNCHANGED << legal_terms, documents, top_n, fut, overtaken, processed_docs,
                    term_freq, legal_term_freq, exc >>

\* nlp(d) raises in extract_clauses or get_document_insights: nothing catches it
CallRaises(method, d) ==
    /\ Returned
    /\ op' = method
    /\ pc' = "failed"
    /\ document' = d
    /\ UNCHANGED << legal_terms, documents, top_n, fut, overtaken, processed_docs,
                    term_freq, legal_term_freq, returned, exc >>

\* analyze_term_frequency(docs, n): executor.map submits one task per document
CallAnalyzeTermFrequency(docs, n) ==
    /\ Returned
    /\ op' = "analyze_term_frequency"
    /\ pc' = "map"
    /\ documents' = docs
    /\ top_n' = n
    /\ fut' = [i \in 1..Len(docs) |-> [state |-> "pending", result |-> << >>, runs |-> 0]]
    /\ UNCHANGED << legal_terms, document, overtaken, processed_docs, term_freq,
                    legal_term_freq, returned, exc >>

\* the worker of document i returns its terms
WorkerReturns(i) ==
    /\ pc = "map"
    /\ i \in 1..Len(fut)
    /\ fut[i].state = "pending"
    /\ fut' = [fut EXCEPT ![i] = [state |-> "done",
                                  result |-> ProcessSingleDoc(documents[i], legal_terms),
                                  runs |-> @.runs + 1]]
    /\ overtaken' = (overtaken \/ \E j \in 1..(i - 1) : fut[j].state = "pending")
    /\ UNCHANGED << legal_terms, op, pc, document, documents, top_n, processed_docs,
                    term_freq, legal_term_freq, returned, exc >>

\* the worker of document i raises (nlp fails on it)
WorkerRaises(i) ==
    /\ pc = "map"
    /\ i \in 1..Len(fut)
    /\ fut[i].state = "pending"
    /\ fut' = [fut EXCEPT ![i] = [state |-> "failed", result |-> << >>,
                                  runs |-> @.runs + 1]]
    /\ overtaken' = (overtaken \/ \E j \in 1..(i - 1) : fut[j].state = "pending")
    /\ UNCHANGED << legal_terms, op, pc, document, documents, top_n, processed_docs,
                    term_freq, legal_term_freq, returned, exc >>

FutureResultSwallowed(f) == [raises |-> FALSE, value |-> f.result]

\* future.result()
FutureResult(f) == [raises |-> f.state = "failed", value |-> f.result]

\* list(...) takes the next result from executor.map's iterator, which gives the
\* results in the order the documents were submitted
TakeResult ==
    /\ pc = "map"
    /\ Len(processed_docs) < Len(fut)
    /\ LET f == fut[Len(processed_docs) + 1]
       IN  /\ f.state \in {"done", "failed"}
           /\ ~FutureResult(f).raises
           /\ processed_docs' = Append(processed_docs, FutureResult(f).value)
    /\ UNCHANGED << legal_terms, op, pc, document, documents, top_n, fut, overtaken,
                    term_freq, legal_term_freq, returned, exc >>

\* the next result raises.  The list is dropped; leaving the iterator cancels the
\* tasks that have not finished (one already running ends as if it had finished
\* just before) and the with block waits for the pool, then the exception reaches
\* the caller
ResultRaises ==
    /\ pc = "map"
    /\ Len(processed_docs) < Len(fut)
    /\ LET f == fut[Len(processed_docs) + 1]
       IN  /\ f.state \in {"done", "failed"}
           /\ FutureResult(f).raises
    /\ pc' = "failed"
    /\ processed_docs' = << >>
    /\ fut' = [i \in 1..Len(fut) |->
                 IF fut[i].state = "pending" THEN [fut[i] EXCEPT !.state = "cancelled"]
                 ELSE fut[i]]
    /\ exc' = Len(processed_docs) + 1
    /\ UNCHANGED << legal_terms, op, document, documents, top_n, overtaken,
                    term_freq, legal_term_freq, returned >>

\* every result is in the list: count, filter, sort, cut (lines 78-89)
Aggregate ==
    /\ pc = "map"
    /\ Len(processed_docs) = Len(fut)
    /\ term_freq' = Counter(ExtendAll(processed_docs))
    /\ legal_term_freq' = LegalOnly(term_freq', legal_terms)
    /\ returned' = Slice(SortedByFreq(legal_term_freq'), top_n)
    /\ pc' = "done"
    /\ UNCHANGED << legal_terms, op, document, documents, top_n, fut, overtaken,
                    processed_docs, exc >>

\* the caller has the result (or the exception) and the call's locals are gone
Return ==
    /\ pc \in {"done", "failed"}
    /\ pc' = "idle"
    /\ op' = "none"
    /\ document' = << >>
    /\ documents' = << >>
    /\ top_n' = DefaultTopN
    /\ fut' = << >>
    /\ overtaken' = FALSE
    /\ processed_docs' = << >>
    /\ term_freq' = << >>
    /\ legal_term_freq' = << >>
    /\ returned' = None
    /\ exc' = 0
    /\ UNCHANGED legal_terms

Next ==
    \/ (Returned /\ \E d \in Documents : CallExtractClauses(d))
    \/ (Returned /\ \E d \in Documents : CallGetDocumentInsights(d))
    \/ (Returned /\ \E d \in Documents, m \in {"extract_clauses", "get_document_insights"} :
            CallRaises(m, d))
    \/ (Returned /\ \E docs \in Corpora, n \in TopNs : CallAnalyzeTermFrequency(docs, n))
    \/ \E i \in 1..Len(fut) : WorkerReturns(i)
    \/ \E i \in 1..Len(fut) : WorkerRaises(i)
    \/ TakeResult
    \/ ResultRaises
    \/ Aggregate
    \/ Return

Spec == Init /\ [][Next]_vars

(***************************************************************************)
(* What the specification says of the three methods.                       *)
(***************************************************************************)
Finished(method) == op = method /\ pc = "done"

\* the annotator's sentences of the document extract_clauses was given
AnnotatorSentences == [i \in 1..Len(document) |-> document[i].text]

\* the clause types whose pattern finds a match in a text
TypesOf(text) == {c \in ClauseKeys : ReSearch(patterns[c], text)}

\* C1, as stated: extract_clauses(d) returns a map with exactly the keys termination,
\* liability and confidentiality, and the list of each is the subsequence, in
\* document order, of the annotator's sentences that match its pattern.
C1_ListsHoldAnnotatorSentences ==
    Finished("extract_clauses") =>
        /\ DOMAIN returned = {"termination", "liability", "confidentiality"}
        /\ \A c \in DOMAIN returned :
               returned[c] = SelectSeq(AnnotatorSentences, LAMBDA t : c \in TypesOf(t))

\* C1, amended: the same, but the lists hold each matching sentence without the
\* whitespace at its ends; whether a sentence matches does not depend on that
\* whitespace.  A sentence of several types is in each of their lists, one of no
\* type is in none.
C1_ListsHoldStrippedSentences ==
    Finished("extract_clauses") =>
        /\ DOMAIN returned = {"termination", "liability", "confidentiality"}
        /\ \A c \in DOMAIN returned :
               LET matching == SelectSeq(AnnotatorSentences, LAMBDA t : c \in TypesOf(t))
               IN  returned[c] = [i \in 1..Len(matching) |-> Strip(matching[i])]
        /\ \A i \in 1..Len(document) : \A c \in ClauseKeys :
               (\E k \in 1..Len(returned[c]) : returned[c][k] = Strip(document[i].text))
                   <=> c \in TypesOf(document[i].text)

\* C1, its case: a matching sentence with whitespace around it, a sentence of
\* several types and a sentence of none, in one document
C1_Witness ==
    /\ Finished("extract_clauses")
    /\ \E i \in 1..Len(document) :
           /\ Strip(document[i].text) # document[i].text
           /\ TypesOf(document[i].text) # {}
    /\ \E i \in 1..Len(document) : Cardinality(TypesOf(document[i].text)) >= 2
    /\ \E i \in 1..Len(document) : TypesOf(document[i].text) = {}

\* every noun chunk of the corpus analyze_term_frequency was given
CorpusChunks ==
    UNION {{NounChunks(documents[i])[k] : k \in 1..Len(NounChunks(documents[i]))} :
               i \in 1..Len(documents)}

\* a text has an entry of the vocabulary in it, case ignored
HasVocabularyEntry(text) == \E v \in legal_terms : Contains(Lower(v), Lower(text))

\* the distinct terms that survive: the chunks with a vocabulary entry, in lower case
SurvivingTerms == {Lower(chunk) : chunk \in {c \in CorpusChunks : HasVocabularyEntry(c)}}

\* C2: every term analyze_term_frequency returns contains, as a case-insensitive
\* substring, at least one entry of the legal vocabulary.
C2_TermsContainVocabulary ==
    Finished("analyze_term_frequency") =>
        \A i \in 1..Len(returned) : HasVocabularyEntry(returned[i][1])

\* C2, its case: a term is returned that is more than a vocabulary entry, while
\* a chunk of the corpus with no vocabulary entry is not
C2_Witness ==
    /\ Finished("analyze_term_frequency")
    /\ \E i \in 1..Len(returned) : returned[i][1] \notin legal_terms
    /\ \E chunk \in CorpusChunks : ~HasVocabularyEntry(chunk)

\* C3, as stated: for every integer top_n the returned list is at most top_n long,
\* and when top_n is at least the number of distinct surviving terms all are returned.
C3_AtMostTopNForEveryInt ==
    Finished("analyze_term_frequency") =>
        /\ Len(returned) <= top_n
        /\ top_n >= Cardinality(SurvivingTerms) =>
               {returned[i][1] : i \in 1..Len(returned)} = SurvivingTerms

\* C3, amended: for every top_n that is not negative the returned list is at most
\* top_n long, and when top_n is at least the number of distinct surviving terms
\* all of them are returned, each once.
C3_AtMostTopNWhenNotNegative ==
    (Finished("analyze_term_frequency") /\ top_n >= 0) =>
        /\ Len(returned) <= top_n
        /\ top_n >= Cardinality(SurvivingTerms) =>
               /\ {returned[i][1] : i \in 1..Len(returned)} = SurvivingTerms
               /\ Len(returned) = Cardinality(SurvivingTerms)

\* C3, its case: more terms survive than top_n, and the list is cut to top_n
C3_Witness ==
    /\ Finished("analyze_term_frequency")
    /\ top_n >= 1
    /\ Cardinality(SurvivingTerms) > top_n
    /\ Len(returned) = top_n

\* C4: the returned list is sorted non-increasing by count, and every count in it
\* is a strictly positive integer.
C4_SortedPositiveCounts ==
    Finished("analyze_term_frequency") =>
        /\ \A i \in 1..Len(returned) : \A j \in (i + 1)..Len(returned) :
               returned[i][2] >= returned[j][2]
        /\ \A i \in 1..Len(returned) : returned[i][2] \in Nat /\ returned[i][2] >= 1

\* C4, its case: the counts differ and the table was not in that order before the sort
C4_Witness ==
    /\ Finished("analyze_term_frequency")
    /\ Len(returned) >= 2
    /\ returned[1][2] > returned[Len(returned)][2]
    /\ \E i \in 1..Len(legal_term_freq) : \E j \in (i + 1)..Len(legal_term_freq) :
           legal_term_freq[i][2] < legal_term_freq[j][2]

\* the corpus is one document, k times
SameDocument == Len(documents) >= 1 /\ \A i \in 1..Len(documents) : documents[i] = documents[1]

\* C5: for a document repeated k >= 1 times, analyze_term_frequency returns the
\* terms of the single-document run, in the same order, each with k times the count.
C5_RepeatedDocumentScalesCounts ==
    (Finished("analyze_term_frequency") /\ SameDocument) =>
        LET single == AnalyzeTermFrequency(<< documents[1] >>, top_n, legal_terms)
        IN  returned = [i \in 1..Len(single) |->
                            << single[i][1], Len(documents) * single[i][2] >>]

\* C5, its case: the document is there more than once and has a term more than once
C5_Witness ==
    /\ Finished("analyze_term_frequency")
    /\ SameDocument
    /\ Len(documents) >= 2
    /\ \E i \in 1..Len(returned) : returned[i][2] > Len(documents)

\* analyze_term_frequency([sample_doc] * 3, top_n=10) has returned
SampleRun ==
    /\ Finished("analyze_term_frequency")
    /\ documents = << SampleDoc, SampleDoc, SampleDoc >>
    /\ top_n = 10

\* C6, as stated: for the sample document, analyze_term_frequency([doc]*3, top_n=10)
\* returns a term containing "confidential" with count exactly 3 times its
\* single-document count.
C6_SampleReturnsConfidentialTerm ==
    SampleRun =>
        LET single == AnalyzeTermFrequency(<< SampleDoc >>, 10, legal_terms)
        IN  \E i \in 1..Len(returned) :
                /\ Contains(<<"c","o","n","f","i","d","e","n","t","i","a","l">>, returned[i][1])
                /\ \E j \in 1..Len(single) :
                       /\ single[j][1] = returned[i][1]
                       /\ returned[i][2] = 3 * single[j][2]

\* C6, amended: for the sample document, analyze_term_frequency([doc]*3, top_n=10)
\* returns the empty list, as the single-document run does: no noun chunk of the
\* document contains a vocabulary entry ("confidential information" does not
\* contain "confidentiality"), so no term containing "confidential" is returned.
C6_SampleReturnsNothing ==
    SampleRun =>
        /\ returned = << >>
        /\ AnalyzeTermFrequency(<< SampleDoc >>, 10, legal_terms) = << >>
        /\ \E chunk \in CorpusChunks : Contains(<<"c","o","n","f","i","d","e","n","t","i","a","l"," ","i","n","f","o","r","m","a","t","i","o","n">>, Lower(chunk))
        /\ \A chunk \in CorpusChunks : ~HasVocabularyEntry(chunk)

\* C6, its case: the run of the sample document, three times, with top_n = 10
C6_Witness == SampleRun /\ \A i \in 1..Len(fut) : fut[i].state = "done"

\* C7: if the extraction of any single document fails in its worker, the whole
\* call fails with that failure propagated to the caller: no ranked list is
\* returned, the results of the workers that completed are discarded, and no retry
\* is made; the call ends in a result built from every document or in a
\* propagated failure.
C7_WorkerFailureFailsTheCall ==
    op = "analyze_term_frequency" =>
        /\ (\E i \in 1..Len(fut) : fut[i].state = "failed") => pc \in {"map", "failed"}
        /\ pc = "failed" =>
               /\ exc \in 1..Len(fut)
               /\ fut[exc].state = "failed"
               /\ returned = None
               /\ processed_docs = << >>
               /\ term_freq = << >> /\ legal_term_freq = << >>
        /\ pc = "done" =>
               /\ exc = 0
               /\ Len(processed_docs) = Len(documents)
               /\ \A i \in 1..Len(documents) :
                      /\ fut[i].state = "done"
                      /\ processed_docs[i] = fut[i].result
        /\ pc = "map" => returned = None /\ exc = 0
        /\ \A i \in 1..Len(fut) : fut[i].runs <= 1

\* C7, its case: the call has failed although the worker of another document had
\* returned its terms
C7_Witness ==
    /\ op = "analyze_term_frequency"
    /\ pc = "failed"
    /\ \E i \in 1..Len(fut) : fut[i].state = "done" /\ fut[i].result # << >>
    /\ Cardinality({i \in 1..Len(fut) : fut[i].state = "failed"}) = 1

\* the terms of document i of the corpus, as its worker returns them
TermsOfDocument(i) ==
    LET chunks == SelectSeq(NounChunks(documents[i]), HasVocabularyEntry)
    IN  [k \in 1..Len(chunks) |-> Lower(chunks[k])]

\* how often a term is in the per-document lists
Occurrences(lists, term) ==
    LET RECURSIVE Sum(_)
        Sum(i) == IF i = 0 THEN 0
                  ELSE Sum(i - 1) + Cardinality({k \in 1..Len(lists[i]) : lists[i][k] = term})
    IN  Sum(Len(lists))

\* where a term is first: the first list that has it, and its place there
FirstDocument(lists, term) ==
    CHOOSE i \in 1..Len(lists) :
        /\ \E k \in 1..Len(lists[i]) : lists[i][k] = term
        /\ \A j \in 1..(i - 1) : \A k \in 1..Len(lists[j]) : lists[j][k] # term

FirstPlace(lists, term) ==
    LET list == lists[FirstDocument(lists, term)]
    IN  CHOOSE k \in 1..Len(list) : list[k] = term /\ \A m \in 1..(k - 1) : list[m] # term

Before(lists, t, u) ==
    \/ FirstDocument(lists, t) < FirstDocument(lists, u)
    \/ /\ FirstDocument(lists, t) = FirstDocument(lists, u)
       /\ FirstPlace(lists, t) < FirstPlace(lists, u)

\* the place of a term in the ranking: behind the terms with a greater count and
\* the terms with the same count that are first earlier
PlaceOf(lists, terms, term) ==
    1 + Cardinality({u \in terms :
                        \/ Occurrences(lists, u) > Occurrences(lists, term)
                        \/ /\ Occurrences(lists, u) = Occurrences(lists, term)
                           /\ Before(lists, u, term)})

\* how many entries s[:n] keeps of a list of length len
Kept(len, n) == IF n >= 0 THEN (IF n < len THEN n ELSE len)
                ELSE (IF len + n > 0 THEN len + n ELSE 0)

\* C8: for fixed documents and top_n, analyze_term_frequency returns the same
\* ranked list under every completion order of the workers: aggregation starts
\* only after all workers have completed, the per-document term lists are merged
\* in input document order, and terms of equal count are in the order of their
\* first occurrence in that concatenation.
C8_RankingIndependentOfCompletionOrder ==
    Finished("analyze_term_frequency") =>
        LET lists == [i \in 1..Len(documents) |-> TermsOfDocument(i)]
            terms == SurvivingTerms
        IN  /\ \A i \in 1..Len(fut) : fut[i].state = "done"
            /\ processed_docs = lists
            /\ Len(returned) = Kept(Cardinality(terms), top_n)
            /\ \A i \in 1..Len(returned) :
                   /\ returned[i][1] \in terms
                   /\ returned[i][2] = Occurrences(processed_docs, returned[i][1])
                   /\ PlaceOf(processed_docs, terms, returned[i][1]) = i

\* C8, its case: a worker finished before one submitted earlier, and two terms
\* of equal count that are first in different documents are both returned
C8_Witness ==
    /\ Finished("analyze_term_frequency")
    /\ overtaken
    /\ \E i \in 1..Len(returned) : \E j \in (i + 1)..Len(returned) :
           /\ returned[i][2] = returned[j][2]
           /\ FirstDocument(processed_docs, returned[i][1])
                  < FirstDocument(processed_docs, returned[j][1])

\* C9: the vocabulary filter applied to the aggregated counts is a no-op: every
\* term of the aggregated table passed the per-document filter, so the filtered
\* table equals the unfiltered table entry for entry.
C9_AggregateFilterIsNoOp ==
    Finished("analyze_term_frequency") =>
        /\ legal_term_freq = term_freq
        /\ \A i \in 1..Len(term_freq) : HasVocabularyEntry(term_freq[i][1])

\* C9, its case: the table has terms, and the per-document filter dropped a chunk
C9_Witness ==
    /\ Finished("analyze_term_frequency")
    /\ term_freq # << >>
    /\ \E chunk \in CorpusChunks : ~HasVocabularyEntry(chunk)

\* the places of the sentences with more than 3 noun chunks, in document order
DenseSentences ==
    SelectSeq([i \in 1..Len(document) |-> i], LAMBDA i : Len(document[i].noun_chunks) > 3)

\* C10: the summary of get_document_insights is the single-space concatenation of
\* the first 3 sentences, in document order, whose noun-chunk count is strictly
\* greater than 3; a sentence with exactly 3 noun chunks is never included, when
\* fewer than 3 qualify all of them are used, and when none qualifies the summary
\* is the empty string.
C10_SummaryOfDenseSentences ==
    Finished("get_document_insights") =>
        LET first == SubSeq(DenseSentences, 1, IF Len(DenseSentences) < 3
                                               THEN Len(DenseSentences) ELSE 3)
        IN  /\ returned.summary =
                   Join(<< " " >>, [k \in 1..Len(first) |-> document[first[k]].text])
            /\ Len(returned.summary) =
                   IF first = << >> THEN 0
                   ELSE (Len(first) - 1) +
                        (LET RECURSIVE Total(_)
                             Total(k) == IF k = 0 THEN 0
                                         ELSE Total(k - 1) + Len(document[first[k]].text)
                         IN  Total(Len(first)))
            /\ (DenseSentences = << >>) => returned.summary = << >>

\* C10, its case: a sentence with exactly 3 noun chunks is left out of a summary
\* that is not empty
C10_Witness ==
    /\ Finished("get_document_insights")
    /\ \E i \in 1..Len(document) : Len(document[i].noun_chunks) = 3
    /\ returned.summary # << >>

=============================================================================
